---------------------------- MODULE Spec2Model ----------------------------
(***************************************************************************)
(* Model of src/app.py, the "Mood of the Queue" Streamlit dashboard:       *)
(* log_mood, get_today_data, get_data_for_period, display_mood_chart,      *)
(* connect_to_sheets, share_spreadsheet and the script main().             *)
(*                                                                         *)
(* Time is counted in whole seconds since the start of day 0.  A calendar  *)
(* day has DaySecs seconds.  The four mood glyphs of mood_options are      *)
(* written in ASCII: "happy" (U+1F60A), "confused" (U+1F615),              *)
(* "angry" (U+1F620), "party" (U+1F389).                                   *)
(***************************************************************************)
EXTENDS Integers, Sequences, FiniteSets, TLC

VARIABLES
    secrets,        \* st.secrets: the deployment's configuration
    session_state,  \* st.session_state of the one session
    widgets,        \* the values the user's widgets hold
    cache,          \* the st.cache_resource entry of connect_to_sheets
    spreadsheet,    \* the remote spreadsheet: does it exist, its data rows
    now,            \* the local clock, datetime.now()
    render          \* what the last call or script pass did and showed

vars == <<secrets, session_state, widgets, cache, spreadsheet, now, render>>

-----------------------------------------------------------------------------
(* Bounds of the model *)

MaxRows == 2        \* data rows a sheet of SpecData holds at most
MaxAppends == 1     \* rows the session appends at most
MaxClock == 2       \* the clock of a session that logs moods runs to MaxClock
MaxWait == 6        \* the clock of a session that watches the trends runs to MaxWait
DaySecs == 2        \* seconds per calendar day (86400, scaled down)

-----------------------------------------------------------------------------
(* Values *)

None == "None"
NaT == -1           \* pandas' not-a-time, what errors='coerce' yields

mood_options == <<"happy", "confused", "angry", "party">>

Moods == {mood_options[i] : i \in DOMAIN mood_options}

\* The header row connect_to_sheets writes, and the fallback frame's columns.
Columns == <<"Timestamp", "Mood", "Note">>

\* The (label, days) options of the "Select time period" selectbox.
time_period_options == <<0, 3, 7, 30>>

Periods == {time_period_options[i] : i \in DOMAIN time_period_options}

\* A Timestamp cell of the sheet is text.  A cell that matches the format
\* "%Y-%m-%d %H:%M:%S" is kept as its date and time-of-day parts; any other
\* text is kept as it is.
TsCell(d, s) == [wf |-> TRUE, date |-> d, time |-> s, raw |-> ""]

BadCell(txt) == [wf |-> FALSE, date |-> 0, time |-> 0, raw |-> txt]

\* datetime.strftime("%Y-%m-%d %H:%M:%S") of the instant t.
strftime(t) == TsCell(t \div DaySecs, t % DaySecs)

\* datetime.strftime("%Y-%m-%d") of the instant t: the calendar date.
strftime_date(t) == t \div DaySecs

\* A to_datetime that reads text it cannot parse as the epoch.
to_datetime_epoch(cell) ==
    IF cell.wf THEN cell.date * DaySecs + cell.time ELSE 0

\* pd.to_datetime(cell, format="%Y-%m-%d %H:%M:%S", errors='coerce').
to_datetime(cell) ==
    IF cell.wf THEN cell.date * DaySecs + cell.time ELSE NaT

\* Python values read back from the sheet: text or a number.
PyStr(s) == [t |-> "str", s |-> s, n |-> 0]

PyInt(n) == [t |-> "int", s |-> "", n |-> n]

\* The texts of the model that int() accepts, with their values.
IntLiterals == [x \in {"42"} |-> 42]

\* gspread's numericise, which get_all_records applies to every cell:
\* text that int() accepts comes back as the number.
numericise(txt) ==
    IF txt \in DOMAIN IntLiterals THEN PyInt(IntLiterals[txt]) ELSE PyStr(txt)


-----------------------------------------------------------------------------
(* The read path: get_today_data, get_data_for_period *)

\* A pandas DataFrame: its column names and its rows in order.  Each row
\* keeps its index label, as filtering a DataFrame does.
DataFrame(cols, rows) == [columns |-> cols, rows |-> rows]

\* An empty frame made without its columns: pd.DataFrame().
BareFrame == DataFrame(<<>>, <<>>)

\* pd.DataFrame(columns=["Timestamp", "Mood", "Note"])
EmptyFrame == DataFrame(Columns, <<>>)

\* sheet.get_all_records(): one record per data row under the header, in
\* storage order, every cell numericised.  (No Timestamp text of the model
\* reads as a number, so the Timestamp cell comes back as it is.)
get_all_records(rows) ==
    [i \in 1..Len(rows) |->
        [idx |-> i,
         Timestamp |-> rows[i].Timestamp,
         Mood |-> numericise(rows[i].Mood),
         Note |-> numericise(rows[i].Note)]]

\* df["Timestamp"] = pd.to_datetime(df["Timestamp"], format=..., errors='coerce')
parse_timestamps(recs) ==
    [i \in 1..Len(recs) |->
        [recs[i] EXCEPT !.Timestamp = to_datetime(recs[i].Timestamp)]]

\* df[df["Timestamp"].dt.strftime("%Y-%m-%d") == today]: NaT formats to NaN,
\* which equals no date.
filter_today(recs, t) ==
    LET keep(r) == r.Timestamp # NaT /\ strftime_date(r.Timestamp) = strftime_date(t)
    IN  SelectSeq(recs, keep)

\* df[df["Timestamp"] >= cutoff_date]: a comparison with NaT is False.
filter_since(recs, cutoff) ==
    LET keep(r) == r.Timestamp # NaT /\ r.Timestamp >= cutoff
    IN  SelectSeq(recs, keep)

\* get_today_data(sheet), called at clock t; read_ok says whether
\* sheet.get_all_records() returns or raises.  The result is the frame
\* returned and whether st.error was shown.
get_today_data(rows, read_ok, t) ==
    IF ~read_ok
    THEN [frame |-> EmptyFrame, error |-> TRUE]
    ELSE LET data == get_all_records(rows)
         IN  IF data # <<>>
             THEN [frame |-> DataFrame(Columns, filter_today(parse_timestamps(data), t)),
                   error |-> FALSE]
             ELSE [frame |-> EmptyFrame, error |-> FALSE]

\* get_data_for_period(sheet, days), called at clock t.
get_data_for_period(rows, read_ok, days, t) ==
    IF ~read_ok
    THEN [frame |-> EmptyFrame, error |-> TRUE]
    ELSE LET data == get_all_records(rows)
             df == parse_timestamps(data)
         IN  IF data # <<>>
             THEN [frame |-> DataFrame(Columns,
                                IF days > 0
                                THEN filter_since(df, t - days * DaySecs)
                                ELSE filter_today(df, t)),
                   error |-> FALSE]
             ELSE [frame |-> EmptyFrame, error |-> FALSE]

-----------------------------------------------------------------------------
(* The aggregator: display_mood_chart *)

\* A size table that notes a key without counting its occurrences.
bump_overwrite(acc, k) ==
    [x \in DOMAIN acc \cup {k} |-> IF x = k THEN 1 ELSE acc[x]]

\* One more occurrence of key k in the size table acc.
bump(acc, k) ==
    [x \in DOMAIN acc \cup {k} |->
        IF x = k THEN (IF k \in DOMAIN acc THEN acc[k] + 1 ELSE 1) ELSE acc[x]]

RECURSIVE size_fold(_, _)
\* The group sizes of a sequence of keys, taken row by row.
size_fold(keys, acc) ==
    IF keys = <<>> THEN acc ELSE size_fold(Tail(keys), bump(acc, Head(keys)))

\* data.groupby(['Date', 'Mood']).size(), Date being Timestamp.dt.date
groupby_date_mood(rows) ==
    size_fold([i \in 1..Len(rows) |->
                  <<strftime_date(rows[i].Timestamp), rows[i].Mood>>], <<>>)

\* data["Mood"].value_counts()
value_counts(rows) ==
    size_fold([i \in 1..Len(rows) |-> rows[i].Mood], <<>>)

NoChart == [kind |-> "none", group |-> FALSE, counts |-> <<>>]

\* display_mood_chart(data, group_by_day): the chart drawn, or the
\* st.info placeholder; and the frame as the call leaves it (grouping by day
\* adds a Date column to it).
display_mood_chart(data, group_by_day) ==
    IF data.rows # <<>>
    THEN IF group_by_day
         THEN [chart |-> [kind |-> "bar", group |-> TRUE,
                          counts |-> groupby_date_mood(data.rows)],
               data |-> DataFrame(Append(data.columns, "Date"), data.rows)]
         ELSE [chart |-> [kind |-> "bar", group |-> FALSE,
                          counts |-> value_counts(data.rows)],
               data |-> data]
    ELSE [chart |-> [kind |-> "info", group |-> group_by_day, counts |-> <<>>],
          data |-> data]

-----------------------------------------------------------------------------
(* What a call or a script pass leaves behind *)

NoLog == [called |-> FALSE, append_ok |-> FALSE, timestamp |-> NaT,
          success |-> FALSE, error |-> None, mood |-> None, note |-> ""]

\* Nothing has run yet.
Blank ==
    [call |-> "none",           \* the function that ran
     trigger |-> "none",        \* what started the pass
     prev |-> "none",           \* how the pass before it ended
     resolved |-> FALSE,        \* did the credential resolver yield one
     ops |-> {},                \* store operations performed
     shown |-> {},              \* what the pass put on the page
     end |-> "none",            \* how the pass ended
     log |-> NoLog,             \* what log_mood returned
     before |-> <<>>,           \* the sheet's rows when the pass began
     days |-> 0,                \* the window selector of the query
     group |-> FALSE,           \* the grouping flag of the chart
     read_ok |-> TRUE,          \* did the query's read of the sheet return
     at |-> 0,                  \* the clock when the query ran
     progress |-> "none",       \* the branch the auto-refresh block took
     today_data |-> EmptyFrame,
     filtered_data |-> EmptyFrame,
     chart |-> NoChart,
     recent_data |-> <<>>]

-----------------------------------------------------------------------------
(* SpecData: the read path and the aggregator on every bounded sheet *)

\* Sequences over S of length at most n.
SeqsUpTo(S, n) == UNION {[1..k -> S] : k \in 0..n}

\* The latest clock reading of SpecData: a 3-day window ending there
\* starts one second after the epoch.
Horizon == 3 * DaySecs + 1

\* Clock readings of SpecData: the epoch, the start of the second day, and
\* the horizon.
Clocks == {0, DaySecs, Horizon}

\* Timestamp cells a sheet may hold: well-formed stamps around the epoch and
\* around the horizon (before, at and after each clock reading and each
\* cutoff), and text that is no timestamp.
TimestampCells ==
    {strftime(t) : t \in {0, 1, 2, Horizon - 1, Horizon, Horizon + 1}}
        \cup {BadCell("not-a-date")}

DataSheetRows == [Timestamp : TimestampCells, Mood : {"happy", "angry"}, Note : {""}]

NoSession ==
    [credentials_dict |-> "absent", selected_mood |-> None, refresh_counter |-> 0,
     last_refresh_time |-> 0, sheet_shared |-> FALSE, share_status_message |-> ""]

NoWidgets ==
    [credentials_json |-> "", email_input |-> "", mood_radio |-> None, note |-> "",
     time_period |-> 0, group_by_day |-> FALSE, auto_refresh |-> FALSE,
     refresh_interval |-> 60]

DataInit ==
    /\ secrets = "good"
    /\ session_state = NoSession
    /\ widgets = NoWidgets
    /\ cache = "existing"
    /\ spreadsheet \in [exists : {TRUE}, base : {0},
                        rows : SeqsUpTo(DataSheetRows, MaxRows)]
    /\ now \in Clocks
    /\ render = Blank

\* A call get_today_data(sheet).
CallGetTodayData ==
    \E read_ok \in BOOLEAN :
        LET res == get_today_data(spreadsheet.rows, read_ok, now)
        IN  /\ render' = [Blank EXCEPT !.call = "get_today_data",
                                       !.read_ok = read_ok,
                                       !.at = now,
                                       !.ops = {"read"},
                                       !.shown = IF res.error THEN {"error_fetching"} ELSE {},
                                       !.today_data = res.frame,
                                       !.filtered_data = res.frame]
            /\ UNCHANGED <<secrets, session_state, widgets, cache, spreadsheet, now>>

\* A call get_data_for_period(sheet, days).
CallGetDataForPeriod ==
    \E read_ok \in BOOLEAN, days \in Periods :
        LET res == get_data_for_period(spreadsheet.rows, read_ok, days, now)
        IN  /\ render' = [Blank EXCEPT !.call = "get_data_for_period",
                                       !.read_ok = read_ok,
                                       !.days = days,
                                       !.at = now,
                                       !.ops = {"read"},
                                       !.shown = IF res.error THEN {"error_fetching"} ELSE {},
                                       !.filtered_data = res.frame]
            /\ UNCHANGED <<secrets, session_state, widgets, cache, spreadsheet, now>>

\* A call display_mood_chart(data, group_by_day) on the frame a query returned.
CallDisplayMoodChart ==
    /\ render.call \in {"get_today_data", "get_data_for_period"}
    /\ \E group_by_day \in BOOLEAN :
        LET res == display_mood_chart(render.filtered_data, group_by_day)
        IN  render' = [render EXCEPT !.call = "display_mood_chart",
                                     !.group = group_by_day,
                                     !.chart = res.chart,
                                     !.filtered_data = res.data,
                                     !.shown = @ \cup (IF res.chart.kind = "info"
                                                       THEN {"info_no_data"}
                                                       ELSE {"plotly_chart"})]
    /\ UNCHANGED <<secrets, session_state, widgets, cache, spreadsheet, now>>

DataNext == CallGetTodayData \/ CallGetDataForPeriod \/ CallDisplayMoodChart

SpecData == DataInit /\ [][DataNext]_vars

-----------------------------------------------------------------------------
(* Claims about the read path and the aggregator, under SpecData *)

IsQuery == render.call \in {"get_today_data", "get_data_for_period"}

\* The index labels of the rows a frame holds.
Labels(frame) == {frame.rows[i].idx : i \in 1..Len(frame.rows)}

\* The window the call asked for: today for get_today_data and for days = 0.
QueryDays == IF render.call = "get_today_data" THEN 0 ELSE render.days

\* Sheet row i is well-formed and lies in [at - days, at], or on at's date.
InWindow(i, days, at) ==
    LET cell == spreadsheet.rows[i].Timestamp
        t == cell.date * DaySecs + cell.time
    IN  /\ cell.wf
        /\ IF days > 0
           THEN at - days * DaySecs <= t /\ t <= at
           ELSE t \div DaySecs = at \div DaySecs

\* Sheet row i is well-formed and not older than at - days (no upper end),
\* or on at's date.
InWindowOpen(i, days, at) ==
    LET cell == spreadsheet.rows[i].Timestamp
        t == cell.date * DaySecs + cell.time
    IN  /\ cell.wf
        /\ IF days > 0
           THEN at - days * DaySecs <= t
           ELSE t \div DaySecs = at \div DaySecs

\* C3: a window query returns exactly the sheet's rows whose timestamp t has
\* now - N days <= t <= now (N > 0), or whose date is today's (N = 0).
C3_WindowExact ==
    (IsQuery /\ render.read_ok) =>
        Labels(render.filtered_data) =
            {i \in 1..Len(spreadsheet.rows) : InWindow(i, QueryDays, render.at)}

\* What the code does instead of C3: for N > 0 the window has no upper end.
C3_WindowOpenEnded ==
    (IsQuery /\ render.read_ok) =>
        Labels(render.filtered_data) =
            {i \in 1..Len(spreadsheet.rows) : InWindowOpen(i, QueryDays, render.at)}

\* The sheet's rows whose Timestamp parses, in order.
WellFormedRows(rows) ==
    LET ok(r) == r.Timestamp.wf IN SelectSeq(rows, ok)

\* A frame's rows without their index labels.
Unlabelled(frame) ==
    [i \in 1..Len(frame.rows) |->
        <<frame.rows[i].Timestamp, frame.rows[i].Mood, frame.rows[i].Note>>]

\* The frame the query of the last call returns on the sheet rows `rows`.
QueryOn(rows) ==
    IF render.call = "get_today_data"
    THEN get_today_data(rows, TRUE, render.at).frame
    ELSE get_data_for_period(rows, TRUE, render.days, render.at).frame

\* C4: a row whose Timestamp does not parse is in no window query's result,
\* the query shows no error for it, and the result is the one the query gives
\* on the sheet without the malformed rows.
C4_MalformedExcluded ==
    (IsQuery /\ render.read_ok) =>
        /\ \A i \in 1..Len(spreadsheet.rows) :
              ~spreadsheet.rows[i].Timestamp.wf => i \notin Labels(render.filtered_data)
        /\ \A i \in 1..Len(render.filtered_data.rows) :
              render.filtered_data.rows[i].Timestamp # NaT
        /\ "error_fetching" \notin render.shown
        /\ Unlabelled(render.filtered_data) =
              Unlabelled(QueryOn(WellFormedRows(spreadsheet.rows)))

\* C4's case: the sheet holds a malformed row, and a well-formed row beside it
\* that the query returned.
C4_Witness ==
    /\ render.call = "get_data_for_period"
    /\ render.read_ok
    /\ \E i \in 1..Len(spreadsheet.rows) : ~spreadsheet.rows[i].Timestamp.wf
    /\ render.filtered_data.rows # <<>>

\* C5: a query on a sheet without data rows, a query that filters every row
\* out and a query whose read fails return zero rows under the columns
\* Timestamp, Mood, Note (the failed read also shows an error), and
\* display_mood_chart on a frame without rows shows the placeholder only.
C5_EmptyResultShape ==
    /\ (IsQuery /\ ~render.read_ok) =>
          /\ render.filtered_data = DataFrame(<<"Timestamp", "Mood", "Note">>, <<>>)
          /\ "error_fetching" \in render.shown
    /\ (IsQuery /\ render.filtered_data.rows = <<>>) =>
          render.filtered_data.columns = <<"Timestamp", "Mood", "Note">>
    /\ (IsQuery /\ render.read_ok /\ spreadsheet.rows = <<>>) =>
          render.filtered_data.rows = <<>>
    /\ (render.call = "display_mood_chart" /\ render.filtered_data.rows = <<>>) =>
          /\ render.chart.kind = "info"
          /\ "info_no_data" \in render.shown
          /\ "plotly_chart" \notin render.shown
          /\ render.filtered_data.columns = <<"Timestamp", "Mood", "Note">>

\* C5's case: the read failed, the sheet held rows, and the chart was asked for.
C5_Witness ==
    /\ render.call = "display_mood_chart"
    /\ ~render.read_ok
    /\ spreadsheet.rows # <<>>
    /\ "error_fetching" \in render.shown

\* The count a size table holds for key k: none is zero.
CountAt(table, k) == IF k \in DOMAIN table THEN table[k] ELSE 0

RECURSIVE SumCounts(_, _)
\* The sum of the table's counts at the keys of K.
SumCounts(table, K) ==
    IF K = {} THEN 0
    ELSE LET k == CHOOSE x \in K : TRUE
         IN  CountAt(table, k) + SumCounts(table, K \ {k})

\* Every reordering of a sequence of rows.
Reorderings(rows) ==
    {[i \in 1..Len(rows) |-> rows[p[i]]] : p \in Permutations(1..Len(rows))}

\* C6: per date the grouped counts sum to the number of rows of that date,
\* per mood they sum to the ungrouped count, and neither aggregation
\* changes when the rows are reordered.
C6_AggregationsAgree ==
    (render.call = "display_mood_chart" /\ render.chart.kind = "bar") =>
        LET rows == render.filtered_data.rows
            grouped == IF render.group THEN render.chart.counts
                       ELSE groupby_date_mood(rows)
            ungrouped == IF render.group THEN value_counts(rows)
                         ELSE render.chart.counts
            dates == {rows[i].Timestamp \div DaySecs : i \in 1..Len(rows)}
            moods == {rows[i].Mood : i \in 1..Len(rows)}
        IN  /\ \A d \in dates :
                  SumCounts(grouped, {<<d, m>> : m \in moods}) =
                      Cardinality({i \in 1..Len(rows) : rows[i].Timestamp \div DaySecs = d})
            /\ \A m \in moods :
                  SumCounts(grouped, {<<d, m>> : d \in dates}) = CountAt(ungrouped, m)
            /\ DOMAIN grouped \subseteq dates \X moods
            /\ DOMAIN ungrouped = moods
            /\ \A perm \in Reorderings(rows) :
                  /\ groupby_date_mood(perm) = grouped
                  /\ value_counts(perm) = ungrouped

\* C6's case: a grouped chart of two rows of one date and one mood.
C6_Witness ==
    /\ render.call = "display_mood_chart"
    /\ render.group
    /\ \E k \in DOMAIN render.chart.counts : render.chart.counts[k] = 2

-----------------------------------------------------------------------------
(* The write path and the gateway: log_mood, share_spreadsheet,            *)
(* connect_to_sheets                                                       *)

\* A log_mood whose row reaches the sheet although the append fails.
log_mood_partial(rows, mood, note, append_ok, t) ==
    [ret |-> IF append_ok THEN <<strftime(t), TRUE, None>>
             ELSE <<strftime(t), FALSE, "append_row raised">>,
     rows |-> Append(rows, [Timestamp |-> strftime(t), Mood |-> mood, Note |-> note])]

\* log_mood(sheet, mood, note) at clock t on a sheet holding `rows`;
\* append_ok says whether sheet.append_row returns or raises.  The result is
\* the tuple returned and the sheet's rows after the call.
log_mood(rows, mood, note, append_ok, t) ==
    IF append_ok
    THEN [ret |-> <<strftime(t), TRUE, None>>,
          rows |-> Append(rows, [Timestamp |-> strftime(t), Mood |-> mood, Note |-> note])]
    ELSE [ret |-> <<strftime(t), FALSE, "append_row raised">>,
          rows |-> rows]

\* The e-mail texts of the model that contain an "@".
WithAt == {"a@b"}

\* share_spreadsheet(spreadsheet, email); share_ok says whether
\* spreadsheet.share returns or raises.
share_spreadsheet(email, share_ok) ==
    IF email # "" /\ email \in WithAt
    THEN IF share_ok
         THEN [success |-> TRUE, error |-> None, ops |-> {"share"}]
         ELSE [success |-> FALSE, error |-> "share raised", ops |-> {"share"}]
    ELSE [success |-> FALSE, error |-> "Invalid email format", ops |-> {}]

\* A connect_to_sheets without the test `if not credentials_dict`, which
\* goes on to open the spreadsheet whatever it was given.
connect_to_sheets_unchecked(entry, secret, session_cred, exists, open_ok) ==
    IF entry # "miss"
    THEN [result |-> entry, cache |-> entry, ops |-> {}, resolved |-> TRUE]
    ELSE IF ~open_ok
    THEN [result |-> "raise", cache |-> "miss", ops |-> {"open"}, resolved |-> TRUE]
    ELSE IF exists
    THEN [result |-> "existing", cache |-> "existing", ops |-> {"open"},
          resolved |-> TRUE]
    ELSE [result |-> "created", cache |-> "created",
          ops |-> {"open", "create", "append_header"}, resolved |-> TRUE]

\* A credentials value is "absent" (no such key), "empty" (a falsy value,
\* such as {}), "bad" (a dict from_json_keyfile_dict rejects) or "good".

\* connect_to_sheets(), behind st.cache_resource: `entry` is the cached
\* result ("miss" when there is none), `exists` whether the spreadsheet is
\* there, open_ok whether the store answers.  The result is what the call
\* returns ("raise" when it raises), the cache entry it leaves, the store
\* operations it performed and whether a credential was obtained.
connect_to_sheets(entry, secret, session_cred, exists, open_ok) ==
    LET credentials_dict == IF secret # "absent" THEN secret ELSE session_cred
    IN  IF entry # "miss"
        THEN [result |-> entry, cache |-> entry, ops |-> {},
              resolved |-> entry # "allNone"]
        ELSE IF credentials_dict \in {"absent", "empty"}
        THEN [result |-> "allNone", cache |-> "allNone", ops |-> {}, resolved |-> FALSE]
        ELSE IF credentials_dict = "bad"
        THEN [result |-> "raise", cache |-> "miss", ops |-> {}, resolved |-> FALSE]
        ELSE IF ~open_ok
        THEN [result |-> "raise", cache |-> "miss", ops |-> {"open"}, resolved |-> TRUE]
        ELSE IF exists
        THEN [result |-> "existing", cache |-> "existing", ops |-> {"open"},
              resolved |-> TRUE]
        ELSE [result |-> "created", cache |-> "created",
              ops |-> {"open", "create", "append_header"}, resolved |-> TRUE]

-----------------------------------------------------------------------------
(* The script: main() *)

MinInterval == 5        \* st.slider's min_value
DefaultInterval == 60   \* st.slider's value, which also widens its range
FeedLimit == 5          \* .head(5) of the Live Feed

\* An auto-refresh block whose progress branch never reruns the script.
auto_refresh_step_no_rerun(last_refresh_time, refresh_interval, t, d) ==
    IF t - last_refresh_time >= refresh_interval
    THEN [branch |-> "reset", last |-> t, bump |-> 1, rerun |-> TRUE]
    ELSE IF (t + d) - last_refresh_time < refresh_interval
    THEN [branch |-> "partial", last |-> last_refresh_time, bump |-> 0, rerun |-> FALSE]
    ELSE [branch |-> "full", last |-> last_refresh_time, bump |-> 0, rerun |-> FALSE]

\* The auto-refresh block at clock t, d later when the progress is computed:
\* the branch taken, last_refresh_time and the counter's increment after it,
\* and whether the pass ends in st.rerun().
auto_refresh_step(last_refresh_time, refresh_interval, t, d) ==
    IF t - last_refresh_time >= refresh_interval
    THEN [branch |-> "reset", last |-> t, bump |-> 1, rerun |-> TRUE]
    ELSE IF (t + d) - last_refresh_time < refresh_interval
    THEN [branch |-> "partial", last |-> last_refresh_time, bump |-> 0, rerun |-> TRUE]
    ELSE [branch |-> "full", last |-> last_refresh_time, bump |-> 0, rerun |-> FALSE]

RECURSIVE insert_desc(_, _)
\* r put into a frame sorted by Timestamp, latest first, after its equals.
insert_desc(sorted, r) ==
    IF sorted = <<>> THEN <<r>>
    ELSE IF Head(sorted).Timestamp >= r.Timestamp
    THEN <<Head(sorted)>> \o insert_desc(Tail(sorted), r)
    ELSE <<r>> \o sorted

RECURSIVE sort_values_desc(_)
\* filtered_data.sort_values("Timestamp", ascending=False)
sort_values_desc(rows) ==
    IF rows = <<>> THEN <<>>
    ELSE insert_desc(sort_values_desc(SubSeq(rows, 1, Len(rows) - 1)), rows[Len(rows)])

\* DataFrame.head(n)
head(rows, n) == SubSeq(rows, 1, IF Len(rows) < n THEN Len(rows) ELSE n)

\* The "Mood trends" column of main: both reads, the chart, the auto-refresh
\* block and the Live Feed.  P is the pass so far, w the widgets' values, env
\* what the store and the clock do during the pass.
main_trends(P, w, env) ==
    LET t == P.r.at
        today == get_today_data(P.sheet.rows, env.read_ok, t)
        period == get_data_for_period(P.sheet.rows, env.read_ok, w.time_period, t)
        drawn == display_mood_chart(period.frame, w.group_by_day)
        step == auto_refresh_step(P.ss.last_refresh_time, w.refresh_interval, t, env.d)
        reruns == w.auto_refresh /\ step.rerun
        feed == ~reruns /\ drawn.data.rows # <<>>
        shown == P.r.shown
                 \cup {"time_period", "group_by_day", "auto_refresh"}
                 \cup (IF today.error \/ period.error THEN {"error_fetching"} ELSE {})
                 \cup (IF drawn.chart.kind = "info" THEN {"info_no_data"}
                       ELSE {"plotly_chart"})
                 \cup (IF w.auto_refresh THEN {"refresh_interval", "refresh_progress"}
                       ELSE {})
                 \cup (IF feed THEN {"live_feed"} ELSE {})
    IN  [P EXCEPT
            !.ss.last_refresh_time = IF w.auto_refresh THEN step.last ELSE @,
            !.ss.refresh_counter = IF w.auto_refresh THEN @ + step.bump ELSE @,
            !.now = IF w.auto_refresh THEN t + env.d ELSE t,
            \* a pass that runs to its end drops the state of widgets it did
            \* not render: the slider and the credentials text area
            !.w.refresh_interval = IF w.auto_refresh THEN @ ELSE DefaultInterval,
            !.w.credentials_json = IF reruns THEN @ ELSE "",
            !.r.ops = @ \cup {"read"},
            !.r.shown = shown,
            !.r.end = IF reruns THEN "rerun_refresh" ELSE "done",
            !.r.days = w.time_period,
            !.r.group = w.group_by_day,
            !.r.read_ok = env.read_ok,
            !.r.progress = IF w.auto_refresh THEN step.branch ELSE "off",
            !.r.today_data = today.frame,
            !.r.filtered_data = drawn.data,
            !.r.chart = drawn.chart,
            !.r.recent_data = IF feed THEN head(sort_values_desc(drawn.data.rows), FeedLimit)
                              ELSE <<>>]

\* The "Log a Mood" column of main, and the rest of the script after it.
main_mood(P, w, submit_button, env) ==
    LET t == P.r.at
        selected_mood == IF w.mood_radio # None THEN w.mood_radio
                         ELSE P.ss.selected_mood
        shown == P.r.shown
                 \cup {"mood_radio", "note"}
                 \cup (IF w.mood_radio # None THEN {"selected_mood"} ELSE {})
                 \cup (IF selected_mood = None THEN {"submit_disabled"}
                       ELSE {"submit_enabled"})
    IN  IF submit_button
        THEN LET res == log_mood(P.sheet.rows, selected_mood, w.note, env.append_ok, t)
             IN  [P EXCEPT
                    !.ss.selected_mood = IF res.ret[2] THEN None ELSE selected_mood,
                    !.sheet.rows = res.rows,
                    !.now = t + 1,
                    !.r.ops = @ \cup {"append"},
                    !.r.shown = shown \cup (IF res.ret[2] THEN {"mood_logged"}
                                            ELSE {"failed_to_log"}),
                    !.r.end = IF res.ret[2] THEN "rerun_submit_ok"
                              ELSE "rerun_submit_failed",
                    !.r.log = [called |-> TRUE, append_ok |-> env.append_ok,
                               timestamp |-> res.ret[1],
                               success |-> res.ret[2], error |-> res.ret[3],
                               mood |-> selected_mood, note |-> w.note]]
        ELSE main_trends([P EXCEPT !.ss.selected_mood = selected_mood,
                                   !.r.shown = shown], w, env)

\* main from the connection on: connect_to_sheets, the Share block, and the
\* rest of the script after them.
main_connect(P, w, share_button, submit_button, env) ==
    LET c == connect_to_sheets(P.cache, secrets, P.ss.credentials_dict,
                               P.sheet.exists, env.open_ok)
        P1 == [P EXCEPT !.cache = c.cache,
                        !.sheet.exists = @ \/ c.result = "created",
                        !.w.credentials_json = IF c.result \in {"allNone", "raise"}
                                               THEN "" ELSE @,
                        !.r.ops = c.ops,
                        !.r.resolved = c.resolved]
        status == P.ss.share_status_message
        shown == {"connected", "email_input", "share_btn"}
                 \cup {IF c.result = "existing" THEN "connected_existing"
                       ELSE "created_new"}
                 \cup (IF status = "" THEN {}
                       ELSE IF status = "Error" THEN {"share_error"}
                       ELSE {"share_success"})
    IN  IF c.result = "allNone"
        THEN [P1 EXCEPT !.r.shown = {"failed_invalid_credentials", "check_credentials"},
                        !.r.end = "return_invalid"]
        ELSE IF c.result = "raise"
        THEN [P1 EXCEPT !.r.shown = {"failed_to_connect", "check_credentials"},
                        !.r.end = "return_connect_error"]
        ELSE IF share_button /\ w.email_input # ""
        THEN LET sh == share_spreadsheet(w.email_input, env.share_ok)
             IN  [P1 EXCEPT
                    !.ss.share_status_message = IF sh.success THEN "shared" ELSE "Error",
                    !.ss.sheet_shared = @ \/ sh.success,
                    !.r.ops = @ \cup sh.ops,
                    !.r.shown = shown,
                    !.r.end = "rerun_share"]
        ELSE main_mood([P1 EXCEPT !.r.shown = shown], w, submit_button, env)

\* One pass of the script main(): w are the widgets' values, trigger what
\* started the pass, the two buttons whether each was pressed.  The result
\* is the state the pass leaves and, in r, what it did and showed.
main(w, trigger, share_button, submit_button, env) ==
    LET P == [ss |-> session_state, w |-> w, cache |-> cache, sheet |-> spreadsheet,
              now |-> now,
              r |-> [Blank EXCEPT !.call = "main", !.trigger = trigger,
                                  !.prev = render.end, !.at = now,
                                  !.before = spreadsheet.rows]]
    IN  IF secrets = "absent" /\ session_state.credentials_dict = "absent"
        THEN LET shown == {"credentials_missing", "credentials_text_area",
                           "upload_credentials"}
             IN  IF w.credentials_json \notin {"", "notjson"}
                 THEN [P EXCEPT !.ss.credentials_dict = w.credentials_json,
                                !.r.shown = shown \cup {"credentials_parsed"},
                                !.r.end = "rerun_credentials"]
                 ELSE [P EXCEPT !.r.shown = shown
                                    \cup (IF w.credentials_json = "notjson"
                                          THEN {"error_parsing_json"} ELSE {}),
                                !.r.end = "return_no_credentials"]
        ELSE main_connect(P, w, share_button, submit_button, env)

-----------------------------------------------------------------------------
(* Spec: one session of the dashboard *)

\* What the user may type or pick.
CredentialTexts == {"notjson", "empty", "bad", "good"}

Emails == {"a@b"}

PickMoods == {"happy", "angry"}

Notes == {"", "42"}

PickPeriods == {0, 3}

Intervals == {MinInterval, DefaultInterval}

\* What the store and the clock may do during a pass: whether the store
\* answers each kind of request the pass makes, and whether the clock moves
\* on by a second inside the auto-refresh block.
Envs(w, share_button, submit_button) ==
    [open_ok : IF cache = "miss" THEN BOOLEAN ELSE {TRUE},
     share_ok : IF share_button THEN BOOLEAN ELSE {TRUE},
     append_ok : IF submit_button THEN BOOLEAN ELSE {TRUE},
     read_ok : BOOLEAN,
     d : IF w.auto_refresh /\ now < MaxWait THEN {0, 1} ELSE {0}]

SheetRow(cell, mood, note) == [Timestamp |-> cell, Mood |-> mood, Note |-> note]

\* The rows of a spreadsheet that was in use before the session.
ExistingRows ==
    << SheetRow(strftime(3), "happy", ""),
       SheetRow(strftime(0), "angry", "slow"),
       SheetRow(BadCell("not-a-date"), "happy", ""),
       SheetRow(strftime(5), "happy", ""),
       SheetRow(strftime(1), "party", ""),
       SheetRow(strftime(4), "angry", ""),
       SheetRow(strftime(2), "confused", "") >>

Init ==
    /\ secrets \in {"absent", "empty", "bad", "good"}
    /\ session_state = NoSession
    /\ widgets = NoWidgets
    /\ cache = "miss"
    /\ spreadsheet \in {[exists |-> FALSE, base |-> 0, rows |-> <<>>],
                        [exists |-> TRUE, base |-> Len(ExistingRows),
                         rows |-> ExistingRows]}
    /\ now = 0
    /\ render = Blank

Reruns == {"rerun_credentials", "rerun_share", "rerun_submit_ok",
           "rerun_submit_failed", "rerun_refresh"}

\* The pass r re-read the sheet because the auto-refresh block reran the script.
TimerRead(r) ==
    /\ r.call = "main"
    /\ r.trigger = "rerun"
    /\ r.prev = "rerun_refresh"
    /\ "read" \in r.ops

\* Streamlit runs the script once, top to bottom.
Pass(w, trigger, share_button, submit_button) ==
    \E env \in Envs(w, share_button, submit_button) :
        \E P \in {main(w, trigger, share_button, submit_button, env)} :
            /\ Len(P.sheet.rows) <= P.sheet.base + MaxAppends
            /\ session_state' = P.ss
            /\ widgets' = P.w
            /\ cache' = P.cache
            /\ spreadsheet' = P.sheet
            /\ now' = P.now
            /\ render' = P.r
            /\ UNCHANGED secrets

\* The session opens the page.
FirstRun ==
    /\ render.call = "none"
    /\ Pass(widgets, "start", FALSE, FALSE)

\* st.rerun() ended the last pass: the script runs again at once.
Rerun ==
    /\ render.end \in Reruns
    /\ Pass(widgets, "rerun", FALSE, FALSE)

EnterCredentials ==
    /\ "credentials_text_area" \in render.shown
    /\ \E txt \in CredentialTexts \ {widgets.credentials_json} :
        Pass([widgets EXCEPT !.credentials_json = txt], "user", FALSE, FALSE)

EnterEmail ==
    /\ "email_input" \in render.shown
    /\ \E email \in Emails \ {widgets.email_input} :
        Pass([widgets EXCEPT !.email_input = email], "user", FALSE, FALSE)

ClickShare ==
    /\ "share_btn" \in render.shown
    /\ Pass(widgets, "user", TRUE, FALSE)

SelectMood ==
    /\ "mood_radio" \in render.shown
    /\ \E mood \in PickMoods \ {widgets.mood_radio} :
        Pass([widgets EXCEPT !.mood_radio = mood], "user", FALSE, FALSE)

EnterNote ==
    /\ "note" \in render.shown
    /\ \E note \in Notes \ {widgets.note} :
        Pass([widgets EXCEPT !.note = note], "user", FALSE, FALSE)

ClickSubmit ==
    /\ "submit_enabled" \in render.shown
    /\ now < MaxClock
    /\ Pass(widgets, "user", FALSE, TRUE)

SelectTimePeriod ==
    /\ "time_period" \in render.shown
    /\ \E days \in PickPeriods \ {widgets.time_period} :
        Pass([widgets EXCEPT !.time_period = days], "user", FALSE, FALSE)

ToggleGroupByDay ==
    /\ "group_by_day" \in render.shown
    /\ Pass([widgets EXCEPT !.group_by_day = ~@], "user", FALSE, FALSE)

ToggleAutoRefresh ==
    /\ "auto_refresh" \in render.shown
    /\ Pass([widgets EXCEPT !.auto_refresh = ~@], "user", FALSE, FALSE)

SlideRefreshInterval ==
    /\ "refresh_interval" \in render.shown
    /\ \E secs \in Intervals \ {widgets.refresh_interval} :
        Pass([widgets EXCEPT !.refresh_interval = secs], "user", FALSE, FALSE)

\* A second passes while the page waits for the user.
Tick ==
    /\ render.call = "main"
    /\ render.end \notin Reruns
    /\ now < MaxClock
    /\ now' = now + 1
    /\ UNCHANGED <<secrets, session_state, widgets, cache, spreadsheet, render>>

\* The same, in a session that watches the trends.
Wait ==
    /\ render.call = "main"
    /\ render.end \notin Reruns
    /\ now < MaxWait
    /\ now' = now + 1
    /\ UNCHANGED <<secrets, session_state, widgets, cache, spreadsheet, render>>

\* The session with the auto-refresh box left alone.
Next ==
    \/ FirstRun
    \/ Rerun
    \/ EnterCredentials
    \/ EnterEmail
    \/ ClickShare
    \/ SelectMood
    \/ EnterNote
    \/ ClickSubmit
    \/ SelectTimePeriod
    \/ Tick

Spec == Init /\ [][Next]_vars

\* The session of a user who watches the trends: the filters and the
\* auto-refresh box, and nothing logged or shared.
RefreshNext ==
    \/ FirstRun
    \/ Rerun
    \/ EnterCredentials
    \/ SelectTimePeriod
    \/ ToggleGroupByDay
    \/ ToggleAutoRefresh
    \/ SlideRefreshInterval
    \/ Wait

SpecRefresh == Init /\ [][RefreshNext]_vars

-----------------------------------------------------------------------------
(* Claims about the session, under Spec *)

\* C1: a call of log_mood whose append succeeds adds exactly the row
\* [timestamp, mood, note] and returns (timestamp, True, None); one whose
\* append fails leaves the sheet as it was and returns (timestamp, False,
\* message).
C1_LogMoodOneRowOrNone ==
    render.log.called =>
        /\ render.log.timestamp = strftime(render.at)
        /\ render.log.append_ok =>
              /\ spreadsheet.rows =
                    Append(render.before, SheetRow(render.log.timestamp,
                                                   render.log.mood, render.log.note))
              /\ render.log.success
              /\ render.log.error = None
        /\ ~render.log.append_ok =>
              /\ spreadsheet.rows = render.before
              /\ ~render.log.success
              /\ render.log.error # None

\* C1's case: the append failed on a sheet that holds rows.
C1_Witness ==
    /\ render.log.called
    /\ ~render.log.append_ok
    /\ render.before # <<>>
    /\ "failed_to_log" \in render.shown

\* s is t or a start of t.
IsPrefix(s, t) == Len(s) <= Len(t) /\ SubSeq(t, 1, Len(s)) = s

\* The last pass logged a mood and the append went through.
Submitted(r) == r.call = "main" /\ r.log.called /\ r.log.success

\* C2: no step changes or removes a row of the sheet, and after a submit
\* that succeeded a read of all rows gives the rows read before it, in
\* their order, and one more last row with the submitted mood and note.
C2_AppendOnlyReadBack ==
    [][ /\ IsPrefix(spreadsheet.rows, spreadsheet'.rows)
        /\ Submitted(render') =>
              LET old == get_all_records(spreadsheet.rows)
                  data == get_all_records(spreadsheet'.rows)
              IN  /\ Len(data) = Len(old) + 1
                  /\ SubSeq(data, 1, Len(old)) = old
                  /\ data[Len(data)].Mood = PyStr(render'.log.mood)
                  /\ data[Len(data)].Note = PyStr(render'.log.note) ]_vars

\* What holds of the sheet itself: rows are only ever added at the end, one
\* at a time, by a submit that succeeded, as the text that was submitted.
C2_StoreAppendOnly ==
    [][ /\ IsPrefix(spreadsheet.rows, spreadsheet'.rows)
        /\ spreadsheet'.rows # spreadsheet.rows =>
              /\ Submitted(render')
              /\ spreadsheet'.rows =
                    Append(spreadsheet.rows,
                           SheetRow(render'.log.timestamp, render'.log.mood,
                                    render'.log.note)) ]_vars

\* C7: the pass that follows a submit that succeeded has no mood selected
\* and Submit disabled; a submit that failed keeps the selected mood and
\* shows the error.
C7_SubmitClearsSelection ==
    /\ (render.call = "main" /\ render.trigger = "rerun"
            /\ render.prev = "rerun_submit_ok" /\ "mood_radio" \in render.shown) =>
          /\ session_state.selected_mood = None
          /\ "submit_disabled" \in render.shown
    /\ (render.log.called /\ render.log.success) =>
          session_state.selected_mood = None
    /\ (render.log.called /\ ~render.log.success) =>
          /\ session_state.selected_mood = render.log.mood
          /\ "failed_to_log" \in render.shown

\* The credential the resolver has to work with: the configuration's, or
\* else the session's.
GivenCredential ==
    IF secrets # "absent" THEN secrets ELSE session_state.credentials_dict

\* The last pass had no credential: none given, none usable, or one only
\* just pasted, which the next pass will try.
NoCredentialPass ==
    /\ render.call = "main"
    /\ \/ render.end = "rerun_credentials"
       \/ GivenCredential \in {"absent", "empty", "bad"}

ConnectedWidgets ==
    {"email_input", "share_btn", "mood_radio", "note", "submit_enabled",
     "submit_disabled", "time_period", "group_by_day", "auto_refresh"}

\* C8: a pass without a credential performs no store operation, shows none
\* of the connected widgets and asks for credentials (the upload request, or
\* the request to check them); the connected widgets appear only with the
\* spreadsheet opened.
C8_NoStoreOpWithoutCredential ==
    /\ NoCredentialPass =>
          /\ render.ops = {}
          /\ render.shown \cap ConnectedWidgets = {}
          /\ render.shown \cap {"upload_credentials", "check_credentials"} # {}
          /\ render.end \in {"return_no_credentials", "rerun_credentials",
                             "return_invalid", "return_connect_error"}
    /\ (render.call = "main" /\ render.shown \cap ConnectedWidgets # {}) =>
          /\ GivenCredential = "good"
          /\ cache \in {"existing", "created"}
          /\ spreadsheet.exists

\* C8's case: connect_to_sheets returned its all-None result.
C8_Witness ==
    /\ render.call = "main"
    /\ render.end = "return_invalid"
    /\ cache = "allNone"
    /\ secrets = "absent"

-----------------------------------------------------------------------------
(* Claims about auto-refresh, under SpecRefresh *)

\* C9: with the toggle on, two successive timer-driven re-reads are a
\* refresh interval apart, and with the toggle off there is none.
C9_RereadOncePerInterval ==
    [][ /\ (TimerRead(render) /\ TimerRead(render')) =>
              render'.at - render.at >= widgets'.refresh_interval
        /\ TimerRead(render') => widgets'.auto_refresh ]_vars

\* The pass reached the auto-refresh block.
ReachedAutoRefresh == render.call = "main" /\ "auto_refresh" \in render.shown

\* The Live Feed list is the latest FeedLimit rows of the filtered result,
\* latest first.
FeedInOrder ==
    LET rows == render.filtered_data.rows
        feed == render.recent_data
    IN  /\ rows # <<>>
        /\ Len(feed) = (IF Len(rows) < 5 THEN Len(rows) ELSE 5)
        /\ \A i \in 1..(Len(feed) - 1) : feed[i].Timestamp >= feed[i + 1].Timestamp
        /\ \A i, j \in 1..Len(feed) : i # j => feed[i].idx # feed[j].idx
        /\ \A i \in 1..Len(feed) : \E j \in 1..Len(rows) : rows[j] = feed[i]
        /\ \A j \in 1..Len(rows) :
              \/ \E i \in 1..Len(feed) : feed[i] = rows[j]
              \/ rows[j].Timestamp <= feed[Len(feed)].Timestamp

ProgressFull ==
    now - session_state.last_refresh_time >= widgets.refresh_interval

C10_FeedTruncated ==
    /\ render.call = "main"
    /\ "live_feed" \in render.shown
    /\ Len(render.filtered_data.rows) > Len(render.recent_data)

=============================================================================
